---------------------------- MODULE Spec2Model ----------------------------
(*************************************************************************)
(* dep-res: level-ordered dependency resolution (src/src/lib.rs).        *)
(*                                                                       *)
(* DepRes holds a concurrent set `ids` and a concurrent map `deps` from  *)
(* an identifier to the set of identifiers it depends on.  `add` ingests *)
(* a batch of items; `resolve` partitions `ids` into level 0 (no entry   *)
(* in `deps`) and the rest, then runs passes: an identifier is admitted  *)
(* to level n when ANY of its dependencies is in level n-1.              *)
(*                                                                       *)
(* A DashMap is a function whose DOMAIN is its key set; a DashSet is a   *)
(* set.  The fork-join loops (par_iter().for_each / partition_map) only  *)
(* perform linearizable inserts into such containers, so one call of     *)
(* `add` and one pass of `resolve` are each one step here, computed as a *)
(* fold over the elements in the order the workers happen to run.        *)
(*************************************************************************)
EXTENDS Integers, Sequences, FiniteSets, Bags, TLC

(* ------------------------------ bounds ------------------------------ *)

\* Identifiers are 0 .. NumIds-1 (the tests use usize identifiers).
NumIds == 3

\* Total number of identifiers (item ids plus dependency-list entries)
\* handed to `add` over the life of one accumulator.
MaxFed == 5

Ids == 0 .. (NumIds - 1)

(* ------------------------------ inputs ------------------------------ *)

\* An item as seen through DepMeta (tests.rs, SimpleDep): get_id() and
\* get_deps(), a slice, so order and duplicates are kept.
SimpleDep(id, ds) == [id |-> id, deps |-> ds]

\* What one item contributes to the budget MaxFed.
Weight(item) == 1 + Len(item.deps)

\* The ways to cut n identifiers into items: sequences of item weights.
RECURSIVE Cuts(_)
Cuts(n) ==
    IF n = 0 THEN {<<>>}
    ELSE UNION { {<<w>> \o rest : rest \in Cuts(n - w)} : w \in 1 .. n }

AllCuts == [n \in 0 .. MaxFed |-> Cuts(n)]

\* The batch (a Vec of items) written as the identifiers `flat` cut at the
\* weights `ws`: each item is its id followed by its dependency slice.
RECURSIVE Vec(_, _)
Vec(flat, ws) ==
    IF ws = <<>> THEN <<>>
    ELSE LET w == Head(ws)
         IN  <<SimpleDep(flat[1], SubSeq(flat, 2, w))>>
                 \o Vec(SubSeq(flat, w + 1, Len(flat)), Tail(ws))

RECURSIVE BatchWeight(_)
BatchWeight(items) ==
    IF items = <<>> THEN 0 ELSE Weight(Head(items)) + BatchWeight(Tail(items))

Range(s) == {s[i] : i \in DOMAIN s}

(* --------------------------- DepRes::add ---------------------------- *)

\* An empty DashMap.
EmptyMap == [k \in {} |-> {}]

\* Faulty variant of OrInsertWith: a fresh set is stored even when the
\* identifier already has an entry (insert instead of or_insert_with).
OrInsertWith_fresh(m, id) ==
    [k \in DOMAIN m \cup {id} |-> IF k = id THEN {} ELSE m[k]]

\* self.deps.entry(id).or_insert_with(DashSet::new)
OrInsertWith(m, id) ==
    IF id \in DOMAIN m THEN m
    ELSE [k \in DOMAIN m \cup {id} |-> IF k = id THEN {} ELSE m[k]]

\* Faulty variant of DepWorker: the entry is replaced by the new dependency
\* instead of growing by it.
DepWorker_replace(m, id, dep) ==
    LET e == OrInsertWith(m, id)
    IN  [e EXCEPT ![id] = {dep}]

\* Faulty variant of DepWorker: a dependency already in the entry is taken
\* out again instead of being left alone.
DepWorker_toggle(m, id, dep) ==
    LET e == OrInsertWith(m, id)
    IN  [e EXCEPT ![id] = IF dep \in @ THEN @ \ {dep} ELSE @ \cup {dep}]

\* One worker of the inner loop: get or create the entry, insert dep.
DepWorker(m, id, dep) ==
    LET e == OrInsertWith(m, id)
    IN  [e EXCEPT ![id] = @ \cup {dep}]

\* deps.par_iter().for_each(...) over the dependency slice of one item.
RECURSIVE ForEachDep(_, _, _)
ForEachDep(m, id, ds) ==
    IF ds = <<>> THEN m
    ELSE ForEachDep(DepWorker(m, id, Head(ds)), id, Tail(ds))

\* The closure run for one item of the batch.
AddItem(g, item) ==
    LET id      == item.id
        ds      == item.deps
        has_dep == ds # <<>>
    IN  [ids  |-> g.ids \cup {id},
         deps |-> IF has_dep THEN ForEachDep(g.deps, id, ds) ELSE g.deps]

\* items.par_iter().for_each(...)
RECURSIVE AddBatch(_, _)
AddBatch(g, items) ==
    IF items = <<>> THEN g
    ELSE AddBatch(AddItem(g, Head(items)), Tail(items))

(* ------------------------- DepRes::resolve -------------------------- *)

\* partition_map: Left when self.deps has no entry for the id, else Right.
PartitionLeft(g) == {id \in g.ids : id \notin DOMAIN g.deps}

\* Faulty variant of PartitionRight: every identifier is sent to the pending set.
PartitionRight_all(g) == g.ids

\* Faulty variant of PartitionRight: the identifiers without an entry are pending.
PartitionRight_noEntry(g) == {id \in g.ids : id \notin DOMAIN g.deps}
PartitionRight(g) == {id \in g.ids : id \in DOMAIN g.deps}

\* Faulty variant of AnyInLast: the membership test against `last` is dropped.
AnyInLast_untested(ds, lastSet) == \E d \in ds : TRUE

\* deps.par_iter().any(|id| last.contains(id))
AnyInLast(ds, lastSet) == \E d \in ds : d \in lastSet

\* One pass over `other`: the candidate level, the next pending set and
\* the error flag.
PassLvn(m, pending, lastSet) ==
    {id \in pending : id \in DOMAIN m /\ AnyInLast(m[id], lastSet)}
\* Faulty variant of PassNewOther: the pending set is carried over whole.
PassNewOther_keep(m, pending, lastSet) == pending
PassNewOther(m, pending, lastSet) ==
    {id \in pending : id \in DOMAIN m /\ ~AnyInLast(m[id], lastSet)}
PassError(m, pending) == \E id \in pending : id \notin DOMAIN m

\* Faulty variant of MapInsert: the level is recorded under the next number.
MapInsert_shifted(m, k, v) ==
    [x \in DOMAIN m \cup {k + 1} |-> IF x = k + 1 THEN v ELSE m[x]]

\* lvs.insert(lv, set)
MapInsert(m, k, v) == [x \in DOMAIN m \cup {k} |-> IF x = k THEN v ELSE m[x]]

\* Faulty variant of StartReturn: the check for an empty identifier set is missing.
StartReturn_noEmptyCheck(g) ==
    IF PartitionLeft(g) = {} THEN "IslandsOrCircular" ELSE "none"

\* Faulty variant of StartReturn: the check for an empty level 0 is missing.
StartReturn_noRootCheck(g) ==
    IF g.ids = {} THEN "Ok" ELSE "none"

\* The early returns before the loop: "none" when resolve goes on.
StartReturn(g) ==
    IF g.ids = {} THEN "Ok"
    ELSE IF PartitionLeft(g) = {} THEN "IslandsOrCircular"
    ELSE "none"

\* Faulty variant of PassReturn: a pass that admits nothing always fails, also
\* when nothing is pending.
PassReturn_alwaysFails(flag, lvn, pending) ==
    IF flag THEN "InternalDataError"
    ELSE IF lvn = {} THEN "IslandsOrCircular" ELSE "none"

\* Faulty variant of PassReturn: a pass that admits nothing returns Ok, also
\* when identifiers are still pending.
PassReturn_neverFails(flag, lvn, pending) ==
    IF flag THEN "InternalDataError"
    ELSE IF lvn = {} THEN "Ok" ELSE "none"

\* The returns at the end of a pass: "none" when the loop goes on.
PassReturn(flag, lvn, pending) ==
    IF flag THEN "InternalDataError"
    ELSE IF lvn = {}
         THEN IF pending = {} THEN "Ok" ELSE "IslandsOrCircular"
         ELSE "none"

\* The loop of resolve() run to its return: n is `lv`, acc is `lvs`.
RECURSIVE ResolveLoop(_, _, _, _, _)
ResolveLoop(m, acc, lastSet, pending, n) ==
    LET cand == PassLvn(m, pending, lastSet)
        ret  == PassReturn(PassError(m, pending), cand, pending)
    IN  IF ret # "none"
        THEN [result |-> ret, lvs |-> IF ret = "Ok" THEN acc ELSE EmptyMap]
        ELSE ResolveLoop(m, MapInsert(acc, n, cand), cand,
                         PassNewOther(m, pending, lastSet), n + 1)

\* resolve() as a function of the accumulator: what it returns, and the
\* levels when that is Ok.
resolve(g) ==
    LET ret == StartReturn(g)
    IN  IF ret # "none"
        THEN [result |-> ret, lvs |-> EmptyMap]
        ELSE ResolveLoop(g.deps, MapInsert(EmptyMap, 0, PartitionLeft(g)),
                         PartitionLeft(g), PartitionRight(g), 1)

(* --------------------------- ResolvedDeps --------------------------- *)

\* The orders in which iterating a DashSet can yield its elements.
IterOrders(S) == {s \in [1 .. Cardinality(S) -> S] : Range(s) = S}

\* Faulty variant of SortByKey: the keys come out in descending order.
RECURSIVE SortByKey_descending(_)
SortByKey_descending(keys) ==
    IF keys = {} THEN <<>>
    ELSE LET k == CHOOSE x \in keys : \A y \in keys : x >= y
         IN  <<k>> \o SortByKey_descending(keys \ {k})

\* vec.sort_by_key(|r| *r.key()): the keys in ascending order.
RECURSIVE SortByKey(_)
SortByKey(keys) ==
    IF keys = {} THEN <<>>
    ELSE LET k == CHOOSE x \in keys : \A y \in keys : x <= y
         IN  <<k>> \o SortByKey(keys \ {k})

\* flat_map over the sorted entries; the order inside one level is the
\* set's iteration order, so the value is the set of possible outputs.
RECURSIVE FlatMap(_, _)
FlatMap(l, keys) ==
    IF keys = <<>> THEN {<<>>}
    ELSE {h \o t : h \in IterOrders(l[Head(keys)]), t \in FlatMap(l, Tail(keys))}

sorted_by_level(l) == FlatMap(l, SortByKey(DOMAIN l))

\* struct DepLevel { level, deps }
DepLevel(level, ds) == [level |-> level, deps |-> ds]

\* Faulty variant of iter_level: the position in the iteration is given as
\* the level number instead of the entry's key.
iter_level_enumerated(l) ==
    {[i \in 1 .. Len(ks) |-> DepLevel(i - 1, l[ks[i]])] : ks \in IterOrders(DOMAIN l)}

\* self.lvs.iter().map(...): the entries in the iteration order of the
\* DashMap, which is not specified (it follows the hashes of the keys), so
\* the value is the set of sequences one iteration can yield.
iter_level(l) ==
    {[i \in 1 .. Len(ks) |-> DepLevel(ks[i], l[ks[i]])] : ks \in IterOrders(DOMAIN l)}

(* ------------------------------ state ------------------------------- *)

VARIABLES
    ids,                  \* DepRes.ids
    deps,                 \* DepRes.deps
    pc,                   \* "idle": no call yet, or add returned;
                          \* "loop": resolve is at the head of its loop;
                          \* "done": resolve has returned
    lvs,                  \* resolve's lvs; the ResolvedDeps once it returns Ok
    last,                 \* resolve's locals
    other,
    new_other,
    lv,
    internal_data_error,
    result,               \* what the last resolve returned
    added,                \* history: every item ever passed to add
    fed,                  \* history: identifiers handed to add so far
    tasks,                \* the item workers of add calls still running
                          \* (a bag; used when add is modelled worker by
                          \* worker, empty otherwise)
    todo,                 \* the identifiers whose worker has not run yet in
                          \* the running fork-join of resolve, and resolve's
    lvn                   \* lvn while its workers fill it (both used when
                          \* resolve is modelled worker by worker; then pc
                          \* is "partition" or "pass" during a fork-join)

vars == <<ids, deps, pc, lvs, last, other, new_other, lv,
          internal_data_error, result, added, fed, tasks, todo, lvn>>

locals == <<last, other, new_other, lv, internal_data_error>>

Init ==
    /\ ids = {}
    /\ deps = EmptyMap
    /\ pc = "idle"
    /\ lvs = EmptyMap
    /\ last = {}
    /\ other = {}
    /\ new_other = {}
    /\ lv = 0
    /\ internal_data_error = FALSE
    /\ result = "none"
    /\ added = {}
    /\ fed = 0
    /\ tasks = EmptyBag
    /\ todo = {}
    /\ lvn = {}

\* The locals of resolve are dropped when it returns.
DropLocals ==
    /\ last' = {}
    /\ other' = {}
    /\ new_other' = {}
    /\ lv' = 0
    /\ internal_data_error' = FALSE

\* add(&items): resolve takes &mut self, so add never runs during it.
add(items) ==
    /\ pc \in {"idle", "done"}
    /\ tasks = EmptyBag
    /\ fed + BatchWeight(items) <= MaxFed
    /\ LET g == AddBatch([ids |-> ids, deps |-> deps], items)
       IN  /\ ids' = g.ids
           /\ deps' = g.deps
    /\ pc' = "idle"
    /\ added' = added \cup Range(items)
    /\ fed' = fed + BatchWeight(items)
    /\ UNCHANGED <<lvs, result, locals, tasks, todo, lvn>>

\* Faulty variant of resolve_start: the partition takes the identifiers out
\* of the accumulator.
resolve_start_taking ==
    /\ pc \in {"idle", "done"}
    /\ UNCHANGED <<deps, added, fed, tasks, todo, lvn>>
    /\ LET g   == [ids |-> ids, deps |-> deps]
           ret == StartReturn(g)
       IN  IF ret # "none"
           THEN /\ result' = ret
                /\ lvs' = EmptyMap
                /\ pc' = "done"
                /\ ids' = ids
                /\ DropLocals
           ELSE /\ lvs' = MapInsert(EmptyMap, 0, PartitionLeft(g))
                /\ last' = PartitionLeft(g)
                /\ other' = PartitionRight(g)
                /\ new_other' = {}
                /\ internal_data_error' = FALSE
                /\ lv' = 1
                /\ result' = "none"
                /\ ids' = {}
                /\ pc' = "loop"

\* resolve(), from the call to the head of the loop or to an early return.
resolve_start ==
    /\ pc \in {"idle", "done"}
    /\ UNCHANGED <<ids, deps, added, fed, tasks, todo, lvn>>
    /\ LET g   == [ids |-> ids, deps |-> deps]
           ret == StartReturn(g)
       IN  IF ret # "none"
           THEN /\ result' = ret
                /\ lvs' = EmptyMap
                /\ pc' = "done"
                /\ DropLocals
           ELSE /\ lvs' = MapInsert(EmptyMap, 0, PartitionLeft(g))
                /\ last' = PartitionLeft(g)
                /\ other' = PartitionRight(g)
                /\ new_other' = {}
                /\ internal_data_error' = FALSE
                /\ lv' = 1
                /\ result' = "none"
                /\ pc' = "loop"

\* One iteration of the loop of resolve().
resolve_pass ==
    /\ pc = "loop"
    /\ UNCHANGED <<ids, deps, added, fed, tasks, todo, lvn>>
    /\ LET cand == PassLvn(deps, other, last)
           nxt  == PassNewOther(deps, other, last)
           flag == internal_data_error \/ PassError(deps, other)
           ret  == PassReturn(flag, cand, other)
       IN  IF ret # "none"
           THEN /\ result' = ret
                /\ lvs' = IF ret = "Ok" THEN lvs ELSE EmptyMap
                /\ pc' = "done"
                /\ DropLocals
           ELSE /\ lvs' = MapInsert(lvs, lv, cand)
                /\ last' = cand
                /\ other' = nxt
                /\ new_other' = other
                /\ lv' = lv + 1
                /\ UNCHANGED <<internal_data_error, result, pc>>

Next ==
    \/ \E n \in 0 .. (MaxFed - fed) :
          \E ws \in AllCuts[n] :
             \E flat \in [1 .. n -> Ids] : add(Vec(flat, ws))
    \/ resolve_start
    \/ resolve_pass

Spec == Init /\ [][Next]_vars

\* resolve runs synchronously to its return: a started loop keeps taking
\* passes.
LiveSpec == Spec /\ WF_vars(resolve_pass)

(* ------------------- resolve, worker by worker --------------------- *)

\* The closure of partition_map for one identifier.
PartitionWorker(id, m) == IF id \notin DOMAIN m THEN "Left" ELSE "Right"

\* The closure of a pass for one pending identifier: where it goes.
PassWorker(id, m, lastSet) ==
    IF id \in DOMAIN m
    THEN IF AnyInLast(m[id], lastSet) THEN "lvn" ELSE "new_other"
    ELSE "internal_data_error"

\* resolve() is called: the early return for an empty identifier set, or
\* the fork of partition_map.  Left is collected in `last` (lv0 becomes
\* last) and Right in `other`.
resolve_call ==
    /\ pc \in {"idle", "done"}
    /\ tasks = EmptyBag
    /\ UNCHANGED <<ids, deps, added, fed, tasks, lvn>>
    /\ IF ids = {}
       THEN /\ result' = "Ok"
            /\ lvs' = EmptyMap
            /\ pc' = "done"
            /\ todo' = {}
            /\ DropLocals
       ELSE /\ pc' = "partition"
            /\ todo' = ids
            /\ last' = {}
            /\ other' = {}
            /\ lvs' = EmptyMap
            /\ result' = "none"
            /\ UNCHANGED <<new_other, lv, internal_data_error>>

\* One worker of partition_map.
partition_worker(id) ==
    /\ pc = "partition"
    /\ id \in todo
    /\ todo' = todo \ {id}
    /\ IF PartitionWorker(id, deps) = "Left"
       THEN last' = last \cup {id} /\ UNCHANGED other
       ELSE other' = other \cup {id} /\ UNCHANGED last
    /\ UNCHANGED <<ids, deps, pc, lvs, new_other, lv, internal_data_error,
                   result, added, fed, tasks, lvn>>

\* partition_map has joined: the check of lv0, level 0, the locals.
partition_join ==
    /\ pc = "partition"
    /\ todo = {}
    /\ UNCHANGED <<ids, deps, added, fed, tasks, todo, lvn>>
    /\ IF last = {}
       THEN /\ result' = "IslandsOrCircular"
            /\ lvs' = EmptyMap
            /\ pc' = "done"
            /\ DropLocals
       ELSE /\ lvs' = MapInsert(EmptyMap, 0, last)
            /\ new_other' = {}
            /\ internal_data_error' = FALSE
            /\ lv' = 1
            /\ pc' = "loop"
            /\ UNCHANGED <<last, other, result>>

\* The head of the loop: a new lvn, new_other.clear(), the fork over other.
pass_fork ==
    /\ pc = "loop"
    /\ lvn' = {}
    /\ new_other' = {}
    /\ todo' = other
    /\ pc' = "pass"
    /\ UNCHANGED <<ids, deps, lvs, last, other, lv, internal_data_error,
                   result, added, fed, tasks>>

\* A worker of a pass that also looks at the candidate set being built.
pass_worker_racy(id) ==
    /\ pc = "pass"
    /\ id \in todo
    /\ todo' = todo \ {id}
    /\ LET to == PassWorker(id, deps, last \cup lvn)
       IN  /\ lvn' = IF to = "lvn" THEN lvn \cup {id} ELSE lvn
           /\ new_other' = IF to = "new_other" THEN new_other \cup {id} ELSE new_other
           /\ internal_data_error' =
                  IF to = "internal_data_error" THEN TRUE ELSE internal_data_error
    /\ UNCHANGED <<ids, deps, pc, lvs, last, other, lv, result, added, fed, tasks>>

\* One worker of a pass.
pass_worker(id) ==
    /\ pc = "pass"
    /\ id \in todo
    /\ todo' = todo \ {id}
    /\ LET to == PassWorker(id, deps, last)
       IN  /\ lvn' = IF to = "lvn" THEN lvn \cup {id} ELSE lvn
           /\ new_other' = IF to = "new_other" THEN new_other \cup {id} ELSE new_other
           /\ internal_data_error' =
                  IF to = "internal_data_error" THEN TRUE ELSE internal_data_error
    /\ UNCHANGED <<ids, deps, pc, lvs, last, other, lv, result, added, fed, tasks>>

\* The pass has joined: the returns, or the next level and the swap.
pass_join ==
    /\ pc = "pass"
    /\ todo = {}
    /\ UNCHANGED <<ids, deps, added, fed, tasks, todo>>
    /\ LET ret == PassReturn(internal_data_error, lvn, other)
       IN  IF ret # "none"
           THEN /\ result' = ret
                /\ lvs' = IF ret = "Ok" THEN lvs ELSE EmptyMap
                /\ pc' = "done"
                /\ lvn' = {}
                /\ DropLocals
           ELSE /\ lvs' = MapInsert(lvs, lv, lvn)
                /\ last' = lvn
                /\ other' = new_other
                /\ new_other' = other
                /\ lv' = lv + 1
                /\ lvn' = {}
                /\ pc' = "loop"
                /\ UNCHANGED <<internal_data_error, result>>

NextPar ==
    \/ \E n \in 0 .. (MaxFed - fed) :
          \E ws \in AllCuts[n] :
             \E flat \in [1 .. n -> Ids] : add(Vec(flat, ws))
    \/ resolve_call
    \/ \E id \in todo : partition_worker(id)
    \/ partition_join
    \/ pass_fork
    \/ \E id \in todo : pass_worker(id)
    \/ pass_join

SpecPar == Init /\ [][NextPar]_vars

(* --------------------- add, worker by worker ------------------------ *)

\* The worker that items.par_iter().for_each starts for one item: `left`
\* are the positions of its dependency slice whose inner worker has not
\* run yet.
ItemWorker(item) == [item |-> item, left |-> 1 .. Len(item.deps)]

RECURSIVE Spawn(_)
Spawn(items) ==
    IF items = <<>> THEN EmptyBag
    ELSE SetToBag({ItemWorker(Head(items))}) (+) Spawn(Tail(items))

\* A call of add starts its item workers; calls may overlap (&self).
add_call(items) ==
    /\ pc \in {"idle", "done"}
    /\ fed + BatchWeight(items) <= MaxFed
    /\ tasks' = tasks (+) Spawn(items)
    /\ added' = added \cup Range(items)
    /\ fed' = fed + BatchWeight(items)
    /\ UNCHANGED <<ids, deps, pc, lvs, result, locals, todo, lvn>>

\* One inner worker: the entry is taken (its shard stays locked) and the
\* dependency inserted, in one atomic step of the map.
dep_worker(t, i) ==
    /\ BagIn(t, tasks)
    /\ i \in t.left
    /\ deps' = DepWorker(deps, t.item.id, t.item.deps[i])
    /\ tasks' = (tasks (-) SetToBag({t}))
                    (+) SetToBag({[t EXCEPT !.left = @ \ {i}]})
    /\ UNCHANGED <<ids, pc, lvs, result, locals, added, fed, todo, lvn>>

\* The inner loop has joined (or has_dep was false): self.ids.insert(id)
\* ends the item worker.
item_done(t) ==
    /\ BagIn(t, tasks)
    /\ t.left = {}
    /\ ids' = ids \cup {t.item.id}
    /\ tasks' = tasks (-) SetToBag({t})
    /\ UNCHANGED <<deps, pc, lvs, result, locals, added, fed, todo, lvn>>

NextAdd ==
    \/ \E n \in 0 .. (MaxFed - fed) :
          \E ws \in AllCuts[n] :
             \E flat \in [1 .. n -> Ids] : add_call(Vec(flat, ws))
    \/ \E t \in BagToSet(tasks) : \E i \in t.left : dep_worker(t, i)
    \/ \E t \in BagToSet(tasks) : item_done(t)

SpecAdd == Init /\ [][NextAdd]_vars

(* ----------------------------- helpers ------------------------------ *)

\* The recorded dependencies of an identifier (no entry: none).
DepsOf(id) == IF id \in DOMAIN deps THEN deps[id] ELSE {}

\* Every identifier that has a level.
Leveled == UNION {lvs[n] : n \in DOMAIN lvs}

\* The levels an identifier is a member of.
LevelsOf(id) == {n \in DOMAIN lvs : id \in lvs[n]}

\* resolve has just returned Ok for the graph now in ids/deps.
ResolvedOk == pc = "done" /\ result = "Ok"

(* ------------------------------ claims ------------------------------ *)

\* C1: whenever resolve returns Ok, every identifier has a level strictly
\* greater than the level of each of its recorded dependencies.
C1_LevelAboveEveryDep ==
    ResolvedOk =>
        \A id \in ids : \A d \in DepsOf(id) :
            \E n \in LevelsOf(id) : \E m \in LevelsOf(d) : m < n

\* C2: during resolve, after the partition and after every pass, the
\* recorded levels and the pending set are pairwise disjoint and together
\* are exactly the ingested identifiers; when resolve returns Ok every
\* ingested identifier is in exactly one level and nothing else is leveled.
C2_LevelsPartitionIds ==
    /\ pc = "loop" =>
          /\ \A n, m \in DOMAIN lvs : n # m => lvs[n] \cap lvs[m] = {}
          /\ Leveled \cap other = {}
          /\ Leveled \cup other = ids
    /\ ResolvedOk =>
          /\ \A id \in ids : Cardinality(LevelsOf(id)) = 1
          /\ Leveled \subseteq ids

\* C2 witness: resolve is between two passes with one level admitted by
\* a pass and identifiers still pending.
C2_Witness == pc = "loop" /\ lv = 2 /\ other # {}

\* C3: whenever resolve returns Ok, each identifier in a level L > 0 has a
\* recorded dependency that is a member of level L-1, and level 0 is
\* exactly the ingested identifiers without an entry in the dependency map.
C3_DepInPreviousLevel ==
    ResolvedOk =>
        /\ \A n \in DOMAIN lvs : n > 0 =>
              \A id \in lvs[n] :
                  /\ n - 1 \in DOMAIN lvs
                  /\ DepsOf(id) \cap lvs[n - 1] # {}
        /\ (IF 0 \in DOMAIN lvs THEN lvs[0] ELSE {})
               = {id \in ids : id \notin DOMAIN deps}

\* C3 witness: an Ok result in which an identifier of level 1 has one
\* dependency in level 0 and another one outside level 0.
C3_Witness ==
    /\ ResolvedOk
    /\ 1 \in DOMAIN lvs
    /\ \E id \in lvs[1] : DepsOf(id) \ lvs[0] # {}

\* C4: whenever resolve returns Ok the level numbers are exactly 0..k-1 for
\* k recorded levels and no recorded level is empty (the pass that admits
\* nothing records no level); the same holds between passes.
C4_LevelsContiguousNonEmpty ==
    (pc = "loop" \/ ResolvedOk) =>
        /\ DOMAIN lvs = 0 .. (Cardinality(DOMAIN lvs) - 1)
        /\ \A n \in DOMAIN lvs : lvs[n] # {}
        /\ pc = "loop" => Cardinality(DOMAIN lvs) = lv

\* C4 witness: an Ok result with three levels, returned by a fourth pass
\* that admitted nothing.
C4_Witness == ResolvedOk /\ DOMAIN lvs = {0, 1, 2}

\* Some identifier depends, directly or through other identifiers, on itself.
RECURSIVE ReachFrom(_, _)
ReachFrom(S, k) ==
    IF k = 0 THEN S
    ELSE ReachFrom(S \cup UNION {DepsOf(x) : x \in S}, k - 1)
DependsOn(id) == ReachFrom(DepsOf(id), NumIds)
HasCycle == \E id \in ids : id \in DependsOn(id)

\* Every identifier listed as a dependency was itself ingested.
AllDepsIngested == \A id \in ids : DepsOf(id) \subseteq ids

\* C5: for a non-empty acyclic graph all of whose dependency identifiers
\* were ingested, resolve returns Ok.
C5_ValidDagResolves ==
    (pc = "done" /\ ids # {} /\ AllDepsIngested /\ ~HasCycle) => result = "Ok"

\* C5 witness: a forest like the test's, a chain next to a lone root,
\* resolved into two levels.
C5_Witness ==
    /\ ResolvedOk /\ AllDepsIngested /\ ~HasCycle
    /\ DOMAIN lvs = {0, 1}
    /\ Cardinality(lvs[0]) = 2

\* C6: if the ingested graph contains a dependency cycle (a ring of
\* identifiers, or an identifier listing itself), resolve fails with
\* IslandsOrCircular.
C6_CycleIsRejected ==
    (pc = "done" /\ HasCycle) => result = "IslandsOrCircular"

\* C7: if an ingested identifier lists a dependency that was never
\* ingested, resolve fails with IslandsOrCircular.
C7_UnknownDepIsRejected ==
    (pc = "done" /\ ~AllDepsIngested) => result = "IslandsOrCircular"

\* No identifier is dependency-free although some were ingested.
NoRoots == ids # {} /\ \A id \in ids : id \in DOMAIN deps

\* The pending set is non-empty and none of its members has a dependency
\* in the level recorded last.
PendingStuck == other # {} /\ \A id \in other : DepsOf(id) \cap last = {}

\* C8: a step of resolve returns IslandsOrCircular exactly when no progress
\* can be made: at the start when identifiers exist and none is
\* dependency-free, or in a pass that admits nothing while identifiers are
\* pending; in every other case resolve goes on or returns Ok.
C8_ErrorIffNoProgress ==
    [][ pc' # "idle" =>
          LET stuck == IF pc = "loop" THEN PendingStuck ELSE NoRoots
          IN  /\ (pc' = "done" /\ result' = "IslandsOrCircular") <=> stuck
              /\ ~stuck => (pc' = "loop" \/ (pc' = "done" /\ result' = "Ok"))
      ]_vars

\* C8 witness: resolve recorded level 0, then failed in a pass.
C8_Witness ==
    /\ pc = "done" /\ result = "IslandsOrCircular"
    /\ \E id \in ids : id \notin DOMAIN deps

\* C9: resolving an accumulator to which no item was ever added returns Ok
\* with zero levels, and sorted_by_level of that result is the empty
\* sequence.
C9_EmptyGraphResolvesEmpty ==
    (pc = "done" /\ added = {}) =>
        /\ result = "Ok"
        /\ DOMAIN lvs = {}
        /\ sorted_by_level(lvs) = {<<>>}

\* C9 witness: resolve has returned and nothing was ever added.
C9_Witness == pc = "done" /\ added = {} /\ ids = {}

\* C10: after any sequence of add calls the identifier set is the set of
\* ids of all items ever added, an identifier has an entry in the
\* dependency map exactly when some item added with that id had a non-empty
\* dependency list, and the entry is the union of the dependency lists of
\* all items added with that id.
C10_AddAccumulates ==
    /\ ids = {item.id : item \in added}
    /\ DOMAIN deps = {item.id : item \in {a \in added : a.deps # <<>>}}
    /\ \A id \in DOMAIN deps :
          deps[id] = UNION {Range(item.deps) : item \in {a \in added : a.id = id}}

\* C10 witness: three items were added with the same id, one without
\* dependencies and two with different dependency lists.
C10_Witness ==
    \E a, b, c \in added :
        /\ a.id = b.id /\ b.id = c.id
        /\ a.deps = <<>>
        /\ b.deps # <<>> /\ c.deps # <<>>
        /\ Range(b.deps) \cap Range(c.deps) = {}

\* The accumulator as one value.
Graph == [ids |-> ids, deps |-> deps]

\* C11: add is idempotent: from any accumulator, adding a batch twice
\* leaves the identifier set and the dependency map as adding it once does
\* (so resolve, which reads nothing else, gives the same outcome).
C11_AddIdempotent ==
    \A n \in 0 .. (MaxFed - fed) :
        \A ws \in AllCuts[n] :
            \A flat \in [1 .. n -> Ids] :
                LET items == Vec(flat, ws)
                    once  == AddBatch(Graph, items)
                    twice == AddBatch(once, items)
                IN  /\ twice = once
                    /\ resolve(twice) = resolve(once)

\* C11 witness: the one-item batch [1:[0]] was added twice and nothing else.
C11_Witness ==
    /\ SimpleDep(1, <<0>>) \in added
    /\ Cardinality(added) = 1
    /\ fed = 2 * Weight(SimpleDep(1, <<0>>))
    /\ deps = [k \in {1} |-> {0}]
    /\ ids = {1}

\* The accumulator after construction.
NewGraph == [ids |-> {}, deps |-> EmptyMap]

\* C12: add is safe under concurrency: whatever the interleaving of the
\* item workers and dependency workers of one or several overlapping add
\* calls, once all of them have finished the identifier set and the
\* dependency map are what adding the items one at a time gives, in any
\* order of the items.
C12_ConcurrentAddIsSequential ==
    tasks = EmptyBag =>
        \A order \in IterOrders(added) : AddBatch(NewGraph, order) = Graph

\* C12 witness: all workers have finished, among them workers of two
\* different items that inserted different dependencies under the same id.
C12_Witness ==
    /\ tasks = EmptyBag
    /\ \E a, b \in added :
          /\ a.id = b.id
          /\ a.deps # <<>> /\ b.deps # <<>>
          /\ Range(a.deps) \cap Range(b.deps) = {}
    /\ Cardinality(ids) = 2

\* The number of identifiers in the levels below n.
RECURSIVE SizeBelow(_)
SizeBelow(n) ==
    IF n = 0 THEN 0
    ELSE SizeBelow(n - 1) + (IF n - 1 \in DOMAIN lvs THEN Cardinality(lvs[n - 1]) ELSE 0)

\* C13: every sequence sorted_by_level can return for an Ok result holds
\* each leveled identifier exactly once, in ascending order of level, so
\* that cutting it at the level sizes gives back the members of each level.
C13_FlatIsLevelOrdered ==
    ResolvedOk =>
        \A s \in sorted_by_level(lvs) :
            /\ Len(s) = Cardinality(Leveled)
            /\ Range(s) = Leveled
            /\ \A i, j \in 1 .. Len(s) :
                  i < j => \A n \in LevelsOf(s[i]) : \A m \in LevelsOf(s[j]) : n <= m
            /\ \A n \in DOMAIN lvs :
                  Range(SubSeq(s, SizeBelow(n) + 1, SizeBelow(n) + Cardinality(lvs[n])))
                      = lvs[n]

\* C13 witness: an Ok result with two levels, the second with two members,
\* so that several flattenings exist.
C13_Witness ==
    /\ ResolvedOk
    /\ DOMAIN lvs = {0, 1}
    /\ Cardinality(lvs[1]) = 2
    /\ Cardinality(sorted_by_level(lvs)) = 2

\* C14 as claimed: every iteration of iter_level over an Ok result yields
\* one pair per recorded level, in ascending order of level, and a second
\* iteration yields the same content.
C14_IterLevelAscending ==
    ResolvedOk =>
        \A out \in iter_level(lvs) :
            /\ Len(out) = Cardinality(DOMAIN lvs)
            /\ \A i, j \in 1 .. Len(out) : i < j => out[i].level < out[j].level
            /\ \A again \in iter_level(lvs) : Range(again) = Range(out)

\* C14 as amended: every iteration of iter_level over an Ok result yields
\* exactly one pair per recorded level, each pair holding its level number
\* and the identifier set of that level, in no particular order; a second
\* iteration yields the same pairs.
C14_IterLevelOnePairPerLevel ==
    ResolvedOk =>
        \A out \in iter_level(lvs) :
            /\ Len(out) = Cardinality(DOMAIN lvs)
            /\ {out[i].level : i \in 1 .. Len(out)} = DOMAIN lvs
            /\ \A i \in 1 .. Len(out) : out[i].deps = lvs[out[i].level]
            /\ \A again \in iter_level(lvs) : Range(again) = Range(out)

\* C14 witness: an Ok result with two levels, which iter_level can yield
\* in two orders.
C14_Witness ==
    /\ ResolvedOk
    /\ Cardinality(DOMAIN lvs) = 2
    /\ Cardinality(iter_level(lvs)) = 2


\* C15: the outcome of resolve depends on the graph alone.  Whatever the
\* order in which the workers of the partition step and of each pass ran,
\* a joined fork-join holds exactly the sets the graph determines, and a
\* returned call has the Ok/Err outcome and the levels that the sequential
\* computation on the same graph gives.
C15_OutcomeDeterminedByGraph ==
    /\ (pc = "partition" /\ todo = {}) =>
          (last = PartitionLeft(Graph) /\ other = PartitionRight(Graph))
    /\ (pc = "pass" /\ todo = {}) =>
          /\ lvn = PassLvn(deps, other, last)
          /\ new_other = PassNewOther(deps, other, last)
          /\ internal_data_error = PassError(deps, other)
    /\ pc = "done" =>
          (result = resolve(Graph).result /\ lvs = resolve(Graph).lvs)

\* A call returned Ok after a pass whose workers inserted two identifiers
\* into the same candidate set.
C15_Witness ==
    /\ ResolvedOk
    /\ todo = {}
    /\ \E n \in DOMAIN lvs : n >= 1 /\ Cardinality(lvs[n]) >= 2


\* C16: resolve never returns InternalDataError.  Every identifier of the
\* pending set has an entry in the dependency mapping at every pass, the
\* flag is never raised, and no call ends with InternalDataError.
C16_NoInternalDataError ==
    /\ result # "InternalDataError"
    /\ pc = "loop" => (other \subseteq DOMAIN deps /\ ~internal_data_error)

\* A second pass is about to run with identifiers still pending.
C16_Witness == pc = "loop" /\ lv = 2 /\ other # {}


\* C17: resolve terminates on every finite graph, cyclic ones included.
\* A pass that does not return leaves a strictly smaller pending set; the
\* pass about to run is never beyond the number of ingested identifiers,
\* no more levels than identifiers are recorded, and a running loop
\* always comes to a return.
C17_ResolveTerminates ==
    /\ [][(pc = "loop" /\ pc' = "loop") =>
             (other' \subseteq other /\ other' # other)]_vars
    /\ [](pc = "loop" => lv <= Cardinality(ids))
    /\ [](Cardinality(DOMAIN lvs) <= Cardinality(ids))
    /\ (pc = "loop" ~> pc = "done")

\* A call on a graph with a root and a cycle has returned, after a pass.
C17_Witness ==
    /\ pc = "done"
    /\ result = "IslandsOrCircular"
    /\ HasCycle
    /\ PartitionLeft(Graph) # {}


\* The least level among the leveled identifiers of a set.
MinLevel(S) ==
    CHOOSE n \in DOMAIN lvs :
        /\ lvs[n] \cap S # {}
        /\ \A k \in DOMAIN lvs : lvs[k] \cap S # {} => n <= k

\* C18: in every Ok result, an identifier with recorded dependencies has a
\* leveled dependency, and its level is one plus the minimum level among
\* its leveled dependencies (whatever its other dependencies are).
C18_LevelIsOnePlusMinimum ==
    ResolvedOk =>
        \A id \in ids \cap DOMAIN deps :
            /\ deps[id] \cap Leveled # {}
            /\ LevelsOf(id) = {1 + MinLevel(deps[id])}

\* An Ok result in which an identifier has a leveled dependency that is not
\* below it: its level is less than one plus the level of that dependency.
C18_Witness ==
    /\ ResolvedOk
    /\ \E id \in ids \cap DOMAIN deps : \E d \in deps[id] \cap Leveled :
          \E n \in LevelsOf(id) : \E k \in LevelsOf(d) : n < 1 + k


\* The identifiers reached from S against the dependency arrows, through
\* ingested identifiers, in at most k steps.
RECURSIVE GroundedFrom(_, _)
GroundedFrom(S, k) ==
    IF k = 0 THEN S
    ELSE GroundedFrom(S \cup {id \in ids : DepsOf(id) \cap S # {}}, k - 1)

\* The roots, and every ingested identifier with a chain of recorded
\* dependencies that ends at a root through ingested identifiers.
Grounded == GroundedFrom(ids \ DOMAIN deps, NumIds)

\* C19: for a non-empty graph, resolve returns Ok if and only if every
\* ingested identifier is a root or has a dependency chain to a root
\* through ingested identifiers; otherwise it returns an error.
C19_OkIffAllGrounded ==
    (pc = "done" /\ ids # {}) =>
        /\ result \in {"Ok", "IslandsOrCircular"}
        /\ result = "Ok" <=> Grounded = ids

\* resolve returned Ok for a graph that has a cycle and a dependency that
\* was never ingested.
C19_Witness == ResolvedOk /\ HasCycle /\ ~AllDepsIngested


\* C20: resolve leaves the identifier set and the dependency mapping as
\* they were, whether it returns Ok or an error.  Every step of a resolve
\* call keeps ids and deps, and every returned call (the first one, a
\* repeated one, one after further adds) has the outcome and the levels of
\* the whole graph accumulated so far.
C20_ResolveKeepsGraph ==
    /\ [][pc' # "idle" => (ids' = ids /\ deps' = deps)]_vars
    /\ [][(pc = "done" /\ pc' = "done") =>
             (result' = result /\ lvs' = lvs)]_vars
    /\ [](pc = "done" =>
             (resolve(Graph).result = result /\ resolve(Graph).lvs = lvs))

\* After a resolve that returned Ok with levels, add has put further
\* identifiers on top of the ones that call leveled.
C20_Witness ==
    /\ pc = "idle"
    /\ result = "Ok"
    /\ Leveled # {}
    /\ Leveled \subseteq ids
    /\ Leveled # ids

=============================================================================
